---- MODULE Spec2Model ----
(***************************************************************************)
(* Model of src/App.js: the React Native prototype "RWA Valuation".        *)
(* The state is the App component's React state (user, users, properties,  *)
(* tokens, screen), the AsyncStorage key-value store with its serial queue *)
(* of requests in flight, and the position of every async function that is *)
(* suspended at an await (the startup load effect, signupOrLogin,          *)
(* acceptAndMint).  Every await is a point where other handlers may run.   *)
(* query and results are the state of the mounted UserDashboard and res is *)
(* the valuation shown by its last "AI Valuation" alert.  A text that the  *)
(* program takes apart is the sequence of its characters.                  *)
(***************************************************************************)
EXTENDS Integers, Sequences, FiniteSets, TLC

\* ----- bounds of the model -----
MaxQueue == 1      \* user events are accepted while at most this many requests are in flight
MaxProps == 2      \* createProperty is pressed while fewer properties than this exist
MaxTokens == 2     \* acceptAndMint is pressed while fewer tokens than this exist or are being minted
MaxFailures == 1   \* AsyncStorage.setItem calls that reject in one run
MaxComps == 2      \* "Add Comparable" is pressed while the property has fewer comparables than this

\* ----- input alphabets -----
Names == {"", "admin", "Admin", "bob"}
Phones == {"", "000", "111"}
RandomSuffix == {"a", "b"}          \* Math.random().toString(36).slice(2, n)
Titles == {"", "Villa"}
Addresses == {"1 Main St"}
ValueTexts == {"", "abc", "100000"} \* text typed in the "Estimated value" field
Timestamps == {"2024-01-01T00:00:00.000Z"}

\* ----- values -----
Null == [id |-> "<null>", name |-> "<null>", phone |-> "<null>"]   \* user === null
NullId == "<null>"                                                  \* assignedTo === null

ToLowerCase(s) == IF s = "Admin" THEN "admin" ELSE s
ToUpperCase(s) == CASE s = "a" -> "A" [] s = "b" -> "B" [] OTHER -> s

STORAGE_KEYS == [USERS |-> "proto_users", PROPERTIES |-> "proto_properties", TOKENS |-> "proto_tokens"]
Keys == {STORAGE_KEYS.USERS, STORAGE_KEYS.PROPERTIES, STORAGE_KEYS.TOKENS}

\* What AsyncStorage holds under a key: nothing (getItem resolves null), text
\* that JSON.parse rejects, the JSON text of a sequence of documents, or an
\* entry that cannot be read (getItem rejects) until it is written again.
NoItem == [kind |-> "null", val |-> <<>>]
Corrupt == [kind |-> "text", val |-> <<>>]
Unreadable == [kind |-> "error", val |-> <<>>]
JSONstringify(data) == [kind |-> "json", val |-> data]
JSONparse(raw) == [threw |-> raw.kind # "json", value |-> raw.val]

Range(s) == {s[i] : i \in 1..Len(s)}

\* ----- load / save (src/App.js 66-74) -----
\* load without its try/catch: a rejected read or unparsable text propagates
load_noCatch(raw, fallback) ==
  IF raw.kind = "error" THEN [threw |-> TRUE, value |-> fallback]
  ELSE IF raw.kind = "null" THEN [threw |-> FALSE, value |-> fallback]
  ELSE [threw |-> JSONparse(raw).threw, value |-> JSONparse(raw).value]

load(raw, fallback) ==
  IF raw.kind = "error" THEN [threw |-> FALSE, value |-> fallback]          \* getItem rejected: catch
  ELSE IF raw.kind = "null" THEN [threw |-> FALSE, value |-> fallback]      \* raw is falsy
  ELSE IF JSONparse(raw).threw THEN [threw |-> FALSE, value |-> fallback]   \* catch
  ELSE [threw |-> FALSE, value |-> JSONparse(raw).value]

getItem(key) == [op |-> "getItem", key |-> key, data |-> <<>>, waiter |-> "load", ctx |-> <<>>]
\* a save that writes every collection under the key of the users
save_usersKey(key, data, waiter, ctx) ==
  [op |-> "setItem", key |-> STORAGE_KEYS.USERS, data |-> data, waiter |-> waiter, ctx |-> ctx]

\* save (src/App.js 72-74): the request it hands to AsyncStorage
save(key, data, waiter, ctx) ==
  [op |-> "setItem", key |-> key, data |-> data, waiter |-> waiter, ctx |-> ctx]
\* a save effect whose closure still holds the collection of the first render
saveEffect_stale(key, data) == save(key, <<>>, "effect", <<>>)

saveEffect(key, data) == save(key, data, "effect", <<>>)

VARIABLES store, failures, queue, loadPc, loc, user, users, properties, tokens, screen, alert, minting,
          results, query, res
vars == <<store, failures, queue, loadPc, loc, user, users, properties, tokens, screen, alert, minting,
          results, query, res>>

\* a role check that compares the name as typed
isAdmin_exact(u) == u # Null /\ u.name # "" /\ u.name = "admin"

\* Simple role check (src/App.js 101)
isAdmin(u) == u # Null /\ u.name # "" /\ ToLowerCase(u.name) = "admin"
\* the session for which App renders the UserDashboard (src/App.js 103, 108-125)
isStandard(u) == u # Null /\ ~isAdmin(u)

\* no "AI Valuation" alert has been shown
NoValuation == [valuation |-> -1, confidence |-> "none", base |-> -1, compAvg |-> -1, low |-> -1, high |-> -1]

\* ----- what a previous run of the app can have left in the store -----
StoredUsers == <<[id |-> "USER-a", name |-> "bob", phone |-> "111"]>>
StoredProperties ==
  <<[id |-> "PROP-a", title |-> "Villa", address |-> "1 Main St", estimatedValue |-> 100000,
     comparables |-> <<>>, documents |-> <<>>, assignedTo |-> NullId,
     createdAt |-> "2024-01-01T00:00:00.000Z", metadata |-> [source |-> "admin-upload"]]>>
StoredTokens ==
  <<[id |-> "TOKEN-A", owner |-> StoredUsers[1], propertyId |-> "PROP-a",
     mintedAt |-> "2024-01-01T00:00:00.000Z"]>>
StoreOf(u, p, t) ==
  [k \in Keys |-> IF k = STORAGE_KEYS.USERS THEN u ELSE IF k = STORAGE_KEYS.PROPERTIES THEN p ELSE t]
InitialStores ==
  { StoreOf(NoItem, NoItem, NoItem),
    StoreOf(JSONstringify(StoredUsers), JSONstringify(StoredProperties), JSONstringify(StoredTokens)),
    StoreOf(Corrupt, JSONstringify(StoredProperties), JSONstringify(StoredTokens)),
    StoreOf(Unreadable, JSONstringify(StoredProperties), JSONstringify(StoredTokens)),
    StoreOf(JSONstringify(StoredUsers), Corrupt, Unreadable) }

\* useState initial values (src/App.js 79-83); no effect has run yet
Init ==
  /\ store \in InitialStores
  /\ failures = 0
  /\ queue = <<>>
  /\ loadPc = "unmounted"
  /\ loc = [u |-> <<>>, p |-> <<>>]
  /\ user = Null
  /\ users = <<>>
  /\ properties = <<>>
  /\ tokens = <<>>
  /\ screen = "login"
  /\ alert = "none"
  /\ minting = <<>>
  /\ results = <<>>
  /\ query = <<>>
  /\ res = NoValuation

\* The effects of the first render, in declaration order (src/App.js 85-98):
\* the load effect runs up to its first await, then the three save effects.
Mount ==
  /\ loadPc = "unmounted"
  /\ loadPc' = "users"
  /\ queue' = <<getItem(STORAGE_KEYS.USERS),
                saveEffect(STORAGE_KEYS.USERS, users),
                saveEffect(STORAGE_KEYS.PROPERTIES, properties),
                saveEffect(STORAGE_KEYS.TOKENS, tokens)>>
  /\ UNCHANGED <<store, failures, loc, user, users, properties, tokens, screen, alert, minting,
                 results, query, res>>

\* The load effect resumes from `await load(key, [])` (src/App.js 86-93).
loadEffect ==
  /\ queue # <<>>
  /\ Head(queue).op = "getItem"
  /\ LET key == Head(queue).key
         r == load(store[key], <<>>)
     IN IF r.threw
        THEN /\ loadPc' = "rejected"
             /\ queue' = Tail(queue)
             /\ UNCHANGED <<loc, users, properties, tokens, results>>
        ELSE CASE key = STORAGE_KEYS.USERS ->
                    /\ loc' = [loc EXCEPT !.u = r.value]
                    /\ loadPc' = "properties"
                    /\ queue' = Append(Tail(queue), getItem(STORAGE_KEYS.PROPERTIES))
                    /\ UNCHANGED <<users, properties, tokens, results>>
               [] key = STORAGE_KEYS.PROPERTIES ->
                    /\ loc' = [loc EXCEPT !.p = r.value]
                    /\ loadPc' = "tokens"
                    /\ queue' = Append(Tail(queue), getItem(STORAGE_KEYS.TOKENS))
                    /\ UNCHANGED <<users, properties, tokens, results>>
               [] OTHER ->
                    /\ users' = loc.u
                    /\ properties' = loc.p
                    /\ tokens' = r.value
                    /\ results' = IF isStandard(user) THEN loc.p ELSE results   \* src/App.js 257-262
                    /\ loc' = [u |-> <<>>, p |-> <<>>]
                    /\ loadPc' = "done"
                    /\ queue' = Tail(queue) \o
                                <<saveEffect(STORAGE_KEYS.USERS, loc.u),
                                  saveEffect(STORAGE_KEYS.PROPERTIES, loc.p),
                                  saveEffect(STORAGE_KEYS.TOKENS, r.value)>>
  /\ UNCHANGED <<store, failures, user, screen, alert, minting, query, res>>

\* onLogin / onLogout (src/App.js 103, 107).  A UserDashboard that mounts
\* starts with results = [] and its effect sets them to the properties
\* (src/App.js 254, 257-262); one that stays mounted keeps its state, and its
\* state is gone when it unmounts.
onLogin(u) ==
  /\ user' = u
  /\ screen' = "dashboard"
  /\ results' = IF ~isStandard(u) THEN <<>> ELSE IF isStandard(user) THEN results ELSE properties
  /\ query' = IF isStandard(u) /\ isStandard(user) THEN query ELSE <<>>
onLogout ==
  /\ user # Null
  /\ user' = Null
  /\ screen' = "login"
  /\ results' = <<>>
  /\ query' = <<>>
  /\ UNCHANGED <<store, failures, queue, loadPc, loc, users, properties, tokens, alert, minting, res>>

\* AsyncStorage.setItem settles (src/App.js 72-74) and the function awaiting
\* it resumes (src/App.js 157, 280); a rejection ends that function there.
setItemSettles(writeOk) ==
  /\ queue # <<>>
  /\ Head(queue).op = "setItem"
  /\ failures' = IF writeOk THEN failures ELSE failures + 1
  /\ LET w == Head(queue)
     IN /\ store' = IF writeOk THEN [store EXCEPT ![w.key] = JSONstringify(w.data)] ELSE store
        /\ queue' = Tail(queue)
        /\ IF writeOk /\ w.waiter = "signupOrLogin"
           THEN onLogin(w.ctx[1]) /\ UNCHANGED alert
           ELSE IF writeOk /\ w.waiter = "acceptAndMint"
           THEN alert' = "Minted" /\ UNCHANGED <<user, screen, results, query>>
           ELSE UNCHANGED <<user, screen, alert, results, query>>
  /\ UNCHANGED <<loadPc, loc, users, properties, tokens, minting, res>>

\* a lookup that only looks at users[0]
find_firstOnly(us, phone) == IF Len(us) > 0 /\ us[1].phone = phone THEN 1 ELSE 0

\* users.find(u => u.phone === phone): index of the first match, 0 if none
find(us, phone) ==
  IF \E i \in 1..Len(us) : us[i].phone = phone
  THEN CHOOSE i \in 1..Len(us) : us[i].phone = phone /\ \A j \in 1..(i-1) : us[j].phone # phone
  ELSE 0

\* a comparison that ignores case
nameMatches_ignoreCase(found, name) == ToLowerCase(found.name) = ToLowerCase(name)

\* found.name !== name (src/App.js 160)
nameMatches(found, name) == found.name = name

\* Login.signupOrLogin (src/App.js 148-163), up to `await save`
signupOrLogin(name, phone, rnd) ==
  /\ loadPc # "unmounted"
  /\ user = Null
  /\ IF name = "" \/ phone = ""
     THEN /\ alert' = "Enter name and phone"
          /\ UNCHANGED <<users, queue, user, screen, results, query>>
     ELSE IF find(users, phone) = 0
     THEN LET newUser == [id |-> "USER-" \o rnd, name |-> name, phone |-> phone]
              next == Append(users, newUser)
          IN /\ users' = next
             /\ queue' = queue \o <<save(STORAGE_KEYS.USERS, next, "signupOrLogin", <<newUser>>),
                                    saveEffect(STORAGE_KEYS.USERS, next)>>
             /\ UNCHANGED <<user, screen, alert, results, query>>
     ELSE LET found == users[find(users, phone)]
          IN IF ~nameMatches(found, name)
             THEN /\ alert' = "Name does not match phone"
                  /\ UNCHANGED <<users, queue, user, screen, results, query>>
             ELSE /\ onLogin(found)
                  /\ UNCHANGED <<users, queue, alert>>
  /\ UNCHANGED <<store, failures, loadPc, loc, properties, tokens, minting, res>>

\* Number(estimatedValue) || 0 (src/App.js 187)
NumberOrZero(text) == IF text = "100000" THEN 100000 ELSE 0

\* AdminDashboard.createProperty (src/App.js 183-194)
createProperty(title, address, estimatedValue, assignedTo, rnd, now) ==
  /\ isAdmin(user)
  /\ IF title = ""
     THEN /\ alert' = "Enter title"
          /\ UNCHANGED <<properties, queue>>
     ELSE LET prop == [id |-> "PROP-" \o rnd, title |-> title, address |-> address,
                       estimatedValue |-> NumberOrZero(estimatedValue),
                       comparables |-> <<>>, documents |-> <<>>,
                       assignedTo |-> IF assignedTo = "" THEN NullId ELSE assignedTo,
                       createdAt |-> now, metadata |-> [source |-> "admin-upload"]]
          IN /\ properties' = <<prop>> \o properties
             /\ queue' = Append(queue, saveEffect(STORAGE_KEYS.PROPERTIES, properties'))
             /\ UNCHANGED alert
  /\ UNCHANGED <<store, failures, loadPc, loc, user, users, tokens, screen, minting, results, query, res>>

\* a map that forgets the id test and assigns every property
assignMap_all(props, propId, userId) ==
  [i \in 1..Len(props) |-> [props[i] EXCEPT !.assignedTo = userId]]

\* properties.map(p => p.id===propId ? {...p, assignedTo: userId} : p) (src/App.js 197)
assignMap(props, propId, userId) ==
  [i \in 1..Len(props) |->
     IF props[i].id = propId THEN [props[i] EXCEPT !.assignedTo = userId] ELSE props[i]]

\* users[0]?.id || null (src/App.js 226)
firstUserId(us) == IF Len(us) = 0 \/ us[1].id = "" THEN NullId ELSE us[1].id

\* AdminDashboard.assignToUser (src/App.js 196-198), with the save effect it triggers
assignToUser(propId, userId) ==
  /\ isAdmin(user)
  /\ properties' = assignMap(properties, propId, userId)
  /\ queue' = Append(queue, saveEffect(STORAGE_KEYS.PROPERTIES, properties'))
  /\ UNCHANGED <<store, failures, loadPc, loc, user, users, tokens, screen, alert, minting, results, query, res>>

\* the map of src/App.js 203
comparableMap(props, propId, comp) ==
  [i \in 1..Len(props) |->
     IF props[i].id = propId
     THEN [props[i] EXCEPT !.comparables = Append(props[i].comparables, comp)]
     ELSE props[i]]

\* AdminDashboard.addComparable (src/App.js 200-204), with the save effect it triggers
addComparable(propId, value, rnd) ==
  /\ isAdmin(user)
  /\ properties' = comparableMap(properties, propId, [id |-> "C-" \o rnd, value |-> value])
  /\ queue' = Append(queue, saveEffect(STORAGE_KEYS.PROPERTIES, properties'))
  /\ UNCHANGED <<store, failures, loadPc, loc, user, users, tokens, screen, alert, minting, results, query, res>>

\* mockMintToken (src/App.js 47-56)
mockMintToken(owner, property, rnd, now) ==
  [id |-> "TOKEN-" \o ToUpperCase(rnd), owner |-> owner, propertyId |-> property.id,
   mintedAt |-> now]

\* UserDashboard.acceptAndMint (src/App.js 274-276), up to `await mockMintToken`:
\* the call keeps the `tokens` of the render it was created in.
acceptAndMint(prop, rnd, now) ==
  /\ user # Null
  /\ ~isAdmin(user)
  /\ prop \in Range(properties)
  /\ minting' = Append(minting, [token |-> mockMintToken(user, prop, rnd, now), tokens |-> tokens])
  /\ UNCHANGED <<store, failures, queue, loadPc, loc, user, users, properties, tokens, screen, alert,
                 results, query, res>>

\* acceptAndMint resumes (src/App.js 277-279), up to `await save`
acceptAndMintResumes ==
  /\ minting # <<>>
  /\ LET token == Head(minting).token
         next == <<token>> \o Head(minting).tokens
     IN /\ tokens' = next
        /\ queue' = queue \o <<save(STORAGE_KEYS.TOKENS, next, "acceptAndMint", <<token>>),
                               saveEffect(STORAGE_KEYS.TOKENS, next)>>
  /\ minting' = Tail(minting)
  /\ UNCHANGED <<store, failures, loadPc, loc, user, users, properties, screen, alert, results, query, res>>

\* ----- texts as sequences of characters -----
\* The characters of the texts that the search compares.
Chars(text) ==
  CASE text = "" -> <<>>
    [] text = "Villa" -> <<"V", "i", "l", "l", "a">>
    [] text = "Loft" -> <<"L", "o", "f", "t">>
    [] text = "1 Main St" -> <<"1", " ", "M", "a", "i", "n", " ", "S", "t">>
    [] text = "2 Oak Ave" -> <<"2", " ", "O", "a", "k", " ", "A", "v", "e">>
    [] text = "source" -> <<"s", "o", "u", "r", "c", "e">>
    [] text = "admin-upload" -> <<"a", "d", "m", "i", "n", "-", "u", "p", "l", "o", "a", "d">>
lowerChar(c) ==
  CASE c = "A" -> "a" [] c = "L" -> "l" [] c = "M" -> "m" [] c = "O" -> "o"
    [] c = "S" -> "s" [] c = "V" -> "v" [] OTHER -> c
\* String.prototype.toLowerCase, trim and includes
toLowerCase(cs) == [i \in 1..Len(cs) |-> lowerChar(cs[i])]
trim(cs) ==
  IF \A i \in 1..Len(cs) : cs[i] = " " THEN <<>>
  ELSE LET first == CHOOSE i \in 1..Len(cs) : cs[i] # " " /\ \A j \in 1..(i - 1) : cs[j] = " "
           last == CHOOSE i \in 1..Len(cs) : cs[i] # " " /\ \A j \in (i + 1)..Len(cs) : cs[j] = " "
       IN SubSeq(cs, first, last)
includes(cs, q) == \E i \in 0..(Len(cs) - Len(q)) : SubSeq(cs, i + 1, i + Len(q)) = q
\* JSON.stringify(p.metadata) for metadata = { source: ... } (src/App.js 31, 190)
stringify(metadata) ==
  <<"{", "\"">> \o Chars("source") \o <<"\"", ":", "\"">> \o Chars(metadata.source) \o <<"\"", "}">>

\* a search that forgets the metadata
mockElasticSearch_noMetadata(text, props) ==
  LET q == toLowerCase(trim(text))
      hit(p) == \/ (p.title # "" /\ includes(toLowerCase(Chars(p.title)), q))
                \/ (p.address # "" /\ includes(toLowerCase(Chars(p.address)), q))
  IN IF q = <<>> THEN props ELSE SelectSeq(props, hit)

\* mockElasticSearch (src/App.js 23-34)
mockElasticSearch(text, props) ==
  LET q == toLowerCase(trim(text))
      hit(p) == \/ (p.title # "" /\ includes(toLowerCase(Chars(p.title)), q))
                \/ (p.address # "" /\ includes(toLowerCase(Chars(p.address)), q))
                \/ includes(toLowerCase(stringify(p.metadata)), q)
  IN IF q = <<>> THEN props ELSE SelectSeq(props, hit)

\* the search field's onChangeText (src/App.js 286)
setQuery(text) ==
  /\ isStandard(user)
  /\ query' = text
  /\ UNCHANGED <<store, failures, queue, loadPc, loc, user, users, properties, tokens, screen, alert,
                 minting, results, res>>

\* UserDashboard.doSearch (src/App.js 264-267)
doSearch ==
  /\ isStandard(user)
  /\ results' = mockElasticSearch(query, properties)
  /\ UNCHANGED <<store, failures, queue, loadPc, loc, user, users, properties, tokens, screen, alert,
                 minting, query, res>>

\* ----- IEEE 754 double arithmetic (the Number type of the arithmetic in mockAIValuation) -----
\* A non-negative double is the natural number of units of 2^-Frac that it is
\* worth, written in binary, least significant bit first, without leading
\* zeros; every double met here is a whole number of such units.  A result is
\* rounded to 53 significant bits, ties to even.
Frac == 60
Bit(b, i) == IF i >= 1 /\ i <= Len(b) THEN b[i] ELSE 0
Strip(b) ==
  IF \E i \in 1..Len(b) : b[i] = 1
  THEN SubSeq(b, 1, CHOOSE i \in 1..Len(b) : b[i] = 1 /\ \A j \in (i + 1)..Len(b) : b[j] = 0)
  ELSE <<>>
ShiftL(b, k) == IF b = <<>> THEN b ELSE [i \in 1..k |-> 0] \o b
\* The arithmetic works on groups of ten bits: Limb(b, j) is the j-th group
\* as an integer and BitOf(limb, i) the bit that position i takes from it.
Limb(b, j) ==
  LET o == 10 * (j - 1)
  IN Bit(b, o + 1) + 2 * Bit(b, o + 2) + 4 * Bit(b, o + 3) + 8 * Bit(b, o + 4) + 16 * Bit(b, o + 5)
     + 32 * Bit(b, o + 6) + 64 * Bit(b, o + 7) + 128 * Bit(b, o + 8) + 256 * Bit(b, o + 9)
     + 512 * Bit(b, o + 10)
Limbs(b) == (Len(b) + 9) \div 10
BitOf(limb, i) == (limb \div 2 ^ ((i - 1) % 10)) % 2
RECURSIVE AddCarry(_, _, _), MulCarry(_, _, _), DivRem(_, _, _), ToInt(_, _), SumOfValues(_, _)
\* the exact sum of two naturals
AddCarry(a, b, j) == IF j = 0 THEN 0 ELSE (Limb(a, j) + Limb(b, j) + AddCarry(a, b, j - 1)) \div 1024
Sum(a, b) ==
  LET n == (IF Limbs(a) > Limbs(b) THEN Limbs(a) ELSE Limbs(b)) + 1
      limb == [j \in 1..n |-> (Limb(a, j) + Limb(b, j) + AddCarry(a, b, j - 1)) % 1024]
  IN Strip([i \in 1..(10 * n) |-> BitOf(limb[(i - 1) \div 10 + 1], i)])
\* the exact product of an integer 0 <= n < 2^20 and a natural
MulCarry(n, b, j) == IF j = 0 THEN 0 ELSE (Limb(b, j) * n + MulCarry(n, b, j - 1)) \div 1024
Product(n, b) ==
  LET limb == [j \in 1..(Limbs(b) + 2) |-> (Limb(b, j) * n + MulCarry(n, b, j - 1)) % 1024]
  IN Strip([i \in 1..(10 * (Limbs(b) + 2)) |-> BitOf(limb[(i - 1) \div 10 + 1], i)])
\* the quotient and the remainder of a natural by an integer 0 < d < 2^20
DivRem(b, d, j) == IF j > Limbs(b) THEN 0 ELSE (1024 * DivRem(b, d, j + 1) + Limb(b, j)) % d
Quotient(b, d) ==
  LET limb == [j \in 1..Limbs(b) |-> (1024 * DivRem(b, d, j + 1) + Limb(b, j)) \div d]
  IN Strip([i \in 1..(10 * Limbs(b)) |-> BitOf(limb[(i - 1) \div 10 + 1], i)])
\* the integer that the groups from the j-th on are worth
ToInt(b, j) == IF j > Limbs(b) THEN 0 ELSE Limb(b, j) + 1024 * ToInt(b, j + 1)
\* round to nearest, ties to even; inexact says that the exact value is above b
RoundToDouble(b, inexact) ==
  IF Len(b) <= 53 THEN b
  ELSE LET k == Len(b) - 53
           q == SubSeq(b, k + 1, Len(b))
           up == b[k] = 1 /\ (q[1] = 1 \/ inexact \/ \E i \in 1..(k - 1) : b[i] = 1)
       IN ShiftL(IF up THEN Sum(q, <<1>>) ELSE q, k)
\* the integer n as a double
Double(n) == Product(n, ShiftL(<<1>>, Frac))
\* the doubles nearest to 0.7, 0.3, 0.9 and 1.1: 0x1.6666666666666p-1,
\* 0x1.3333333333333p-2, 0x1.ccccccccccccdp-1 and 0x1.199999999999ap+0
Literal07 == ShiftL([i \in 1..53 |-> IF i = 53 \/ i % 4 \in {2, 3} THEN 1 ELSE 0], Frac - 53)
Literal03 == ShiftL([i \in 1..53 |-> IF i = 53 \/ i % 4 \in {1, 2} THEN 1 ELSE 0], Frac - 54)
Literal09 == ShiftL([i \in 1..53 |-> IF i = 53 \/ i = 1 \/ i % 4 \in {3, 0} THEN 1 ELSE 0], Frac - 53)
Literal11 ==
  ShiftL([i \in 1..53 |-> IF i = 53 \/ i = 49 \/ i \in {2, 4} \/ (i \in 5..48 /\ i % 4 \in {1, 0}) THEN 1 ELSE 0],
         Frac - 52)
\* n * x, x + y and n / d in double arithmetic, for integers n, d
Times(n, x) == RoundToDouble(Product(n, x), FALSE)
Plus(x, y) == RoundToDouble(Sum(x, y), FALSE)
Over(n, d) == RoundToDouble(Quotient(Double(n), d), DivRem(Double(n), d, 1) # 0)
\* Math.round: the nearest integer, a tie going up
MathRound(x) == ToInt(Sum(x, ShiftL(<<1>>, Frac - 1)), Frac \div 10 + 1)

\* comps.reduce((s,c) => s + (c.value||0), 0) (src/App.js 41)
SumOfValues(comps, i) == IF i > Len(comps) THEN 0 ELSE comps[i].value + SumOfValues(comps, i + 1)

\* mockAIValuation (src/App.js 36-45); reasoning is given by the numbers it reports
mockAIValuation(property) ==
  LET base == IF property.estimatedValue # 0 THEN property.estimatedValue ELSE 100000
      comps == property.comparables
      compAvg == IF Len(comps) # 0 THEN MathRound(Over(SumOfValues(comps, 1), Len(comps))) ELSE 0
      valuation == MathRound(Plus(Times(base, Literal07), Times(compAvg, Literal03)))
  IN [valuation |-> valuation, confidence |-> IF Len(comps) # 0 THEN "medium" ELSE "low",
      base |-> base, compAvg |-> compAvg,
      low |-> MathRound(Times(valuation, Literal09)), high |-> MathRound(Times(valuation, Literal11))]

\* the `assigned` state of the UserDashboard, derived by its effect (src/App.js 257-262)
assigned == SelectSeq(properties, LAMBDA p : p.assignedTo = user.id)

\* the UserDashboard is rendered and lists prop with its "Request AI Valuation"
\* button (src/App.js 108-125, 288-305)
valuationOffered(prop) ==
  /\ isStandard(user)
  /\ prop \in Range(results) \cup Range(assigned)

\* UserDashboard.requestValuation (src/App.js 269-272), pressed on a listed property
requestValuation(prop) ==
  /\ valuationOffered(prop)
  /\ res' = mockAIValuation(prop)
  /\ alert' = "AI Valuation"
  /\ UNCHANGED <<store, failures, queue, loadPc, loc, user, users, properties, tokens, screen,
                 minting, results, query>>

PropIds == {"PROP-" \o rnd : rnd \in RandomSuffix}
AssignTexts == {"", "USER-b"}       \* text typed in the "Assign to user id" field

\* ----- the environment: which events arrive, within the bounds -----
Idle == Len(queue) <= MaxQueue                  \* the user acts while few requests are in flight
MayFail(writeOk) == writeOk \/ failures < MaxFailures
NoComparables == \A i \in 1..Len(properties) : properties[i].comparables = <<>>

\* the effects of App and a store whose writes succeed
Startup ==
  \/ Mount
  \/ loadEffect
  \/ setItemSettles(TRUE)

\* the effects of App and a store whose writes may be rejected
StartupFaulty ==
  \/ Mount
  \/ loadEffect
  \/ \E writeOk \in BOOLEAN : MayFail(writeOk) /\ setItemSettles(writeOk)

\* The whole app, with one administrator, one standard user and one property.
Logins == {[name |-> "Admin", phone |-> "000"], [name |-> "bob", phone |-> "111"]}
Next ==
  \/ Startup
  \/ \E l \in Logins : Idle /\ signupOrLogin(l.name, l.phone, "a")
  \/ onLogout
  \/ Idle /\ properties = <<>> /\ createProperty("Villa", "1 Main St", "100000", "", "a", "2024-01-01T00:00:00.000Z")
  \/ Idle /\ assignToUser("PROP-a", firstUserId(users))
  \/ Idle /\ NoComparables /\ addComparable("PROP-a", 50000, "a")
  \/ \E prop \in Range(properties), rnd \in RandomSuffix :
        /\ Idle /\ Len(tokens) + Len(minting) < MaxTokens
        /\ acceptAndMint(prop, rnd, "2024-01-01T00:00:00.000Z")
  \/ acceptAndMintResumes

Spec == Init /\ [][Next]_vars

\* Startup, login and logout only, with every name and phone, over a store
\* whose writes may be rejected.
NextIdentity ==
  \/ StartupFaulty
  \/ \E name \in Names, phone \in Phones, rnd \in RandomSuffix :
        Idle /\ signupOrLogin(name, phone, rnd)
  \/ onLogout

SpecIdentity == Init /\ [][NextIdentity]_vars

\* The administrator creating and assigning properties, with every input of
\* createProperty and assignToUser that decides an id or an assignee.
NextAdmin ==
  \/ Startup
  \/ \E l \in Logins : Idle /\ signupOrLogin(l.name, l.phone, "a")
  \/ onLogout
  \/ \E title \in Titles, address \in Addresses, estimatedValue \in ValueTexts,
        assignedTo \in AssignTexts, rnd \in RandomSuffix, now \in Timestamps :
        /\ Idle /\ Len(properties) < MaxProps
        /\ createProperty(title, address, estimatedValue, assignedTo, rnd, now)
  \/ \E propId \in PropIds : Idle /\ assignToUser(propId, firstUserId(users))

SpecAdmin == Init /\ [][NextAdmin]_vars

\* The administrator adding comparables, also while the startup load and the
\* writes of the login are still in flight.
CompValues == {50000, 150000}       \* Math.round(Math.random()*100000 + 50000)
Backlog == Len(queue) <= MaxQueue + 4
FewComparables == \A i \in 1..Len(properties) : Len(properties[i].comparables) < MaxComps
NextComparables ==
  \/ Startup
  \/ Backlog /\ signupOrLogin("admin", "000", "a")
  \/ Backlog /\ properties = <<>> /\ createProperty("Villa", "1 Main St", "100000", "", "a", "2024-01-01T00:00:00.000Z")
  \/ \E value \in CompValues, rnd \in RandomSuffix :
        Backlog /\ FewComparables /\ addComparable("PROP-a", value, rnd)

SpecComparables == Init /\ [][NextComparables]_vars

\* ----- the standard user's dashboard over a collection the administrator built -----
SessionUsers ==
  <<[id |-> "USER-a", name |-> "Admin", phone |-> "000"], [id |-> "USER-b", name |-> "bob", phone |-> "111"]>>
\* a property as createProperty and addComparable leave it (src/App.js 185-191, 203)
PropertyOf(rnd, title, address, estimatedValue, values) ==
  [id |-> "PROP-" \o rnd, title |-> title, address |-> address, estimatedValue |-> estimatedValue,
   comparables |-> [i \in 1..Len(values) |-> [id |-> "C-a", value |-> values[i]]],
   documents |-> <<>>, assignedTo |-> NullId,
   createdAt |-> "2024-01-01T00:00:00.000Z", metadata |-> [source |-> "admin-upload"]]
\* bob is logged in after the startup load and every write have completed
Browsing(props) ==
  /\ store = StoreOf(JSONstringify(SessionUsers), JSONstringify(props), JSONstringify(<<>>))
  /\ failures = 0
  /\ queue = <<>>
  /\ loadPc = "done"
  /\ loc = [u |-> <<>>, p |-> <<>>]
  /\ user = SessionUsers[2]
  /\ users = SessionUsers
  /\ properties = props
  /\ tokens = <<>>
  /\ screen = "dashboard"
  /\ alert = "none"
  /\ minting = <<>>
  /\ results = props
  /\ query = <<>>
  /\ res = NoValuation

\* The search of the UserDashboard, over every collection of a few properties
\* and every short query.
MaxQueryLen == 2
QueryChars == {" ", "V", "t", "d"}
Queries == UNION {[1..n -> QueryChars] : n \in 0..MaxQueryLen}
SearchProperties ==
  {PropertyOf("a", title, address, 100000, <<>>) : title \in {"Villa", "Loft"}, address \in {"1 Main St", "2 Oak Ave"}}
SearchInputs == UNION {[1..n -> SearchProperties] : n \in 0..MaxProps}
InitSearch == \E props \in SearchInputs : Browsing(props)
NextSearch ==
  \/ \E text \in Queries : setQuery(text)
  \/ doSearch

SpecSearch == InitSearch /\ [][NextSearch]_vars

\* The valuation of the UserDashboard, for one listed property with every
\* estimate and every short sequence of comparables.
EstimatedValues == {0, 5, 35, 45, 100000}     \* Number(estimatedValue) || 0
SaleValues == {50001, 150000, 200000}           \* values of comparables
ValuationInputs ==
  {<<PropertyOf("a", "Villa", "1 Main St", estimatedValue, values)>> :
     estimatedValue \in EstimatedValues, values \in UNION {[1..n -> SaleValues] : n \in 0..MaxComps}}
InitValuation == \E props \in ValuationInputs : Browsing(props)
NextValuation == \E prop \in Range(results) : requestValuation(prop)

SpecValuation == InitValuation /\ [][NextValuation]_vars

\* ======================= properties =======================

Mem(k) == IF k = STORAGE_KEYS.USERS THEN users
          ELSE IF k = STORAGE_KEYS.PROPERTIES THEN properties ELSE tokens
IsPrefix(s, t) == Len(s) <= Len(t) /\ \A i \in 1..Len(s) : s[i] = t[i]
Issued == SubSeq(queue', Len(queue) + 1, Len(queue'))      \* requests issued by a step
\* a step in which a user-triggered operation (not the startup load) changes collection k
UserMutation(k) == Mem(k)' # Mem(k) /\ loadPc' = loadPc
\* a step in which the oldest request in flight, a setItem, settles
Settles == queue # <<>> /\ Head(queue).op = "setItem" /\ queue' = Tail(queue)

\* C1: in every reachable state no two entries of users have the same phone.
PhoneUnique ==
  \A i, j \in 1..Len(users) : i # j => users[i].phone # users[j].phone
\* two users have been created by logins made before the startup load delivered
TwoUsersBeforeLoad == loadPc = "tokens" /\ Len(users) = 2

\* C2: a user record present in users is present in users in the next state
\* (once added, a user is never deleted or changed).
UsersNeverRemoved ==
  [][\A i \in 1..Len(users) : users[i] \in Range(users')]_vars

\* C3: a token present in tokens is present in tokens in the next state
\* (once minted, a token is never deleted or changed).
TokensNeverRemoved ==
  [][\A i \in 1..Len(tokens) : tokens[i] \in Range(tokens')]_vars

\* C4: a login attempt whose phone belongs to a stored user with a different
\* name (compared exactly) fails with the identity-mismatch alert, creates no
\* user, issues no write and leaves the session logged out.
MismatchRejected ==
  [][\A name \in Names, phone \in Phones, rnd \in RandomSuffix :
       ( /\ signupOrLogin(name, phone, rnd)
         /\ name # "" /\ phone # ""
         /\ \E i \in 1..Len(users) : users[i].phone = phone /\ users[i].name # name )
       => ( /\ users' = users
            /\ user' = Null
            /\ queue' = queue
            /\ alert' = "Name does not match phone" )]_vars
\* an attempt with the phone of "Admin" and the name "admin" has been rejected
MismatchShown ==
  /\ alert = "Name does not match phone"
  /\ user = Null
  /\ \E i \in 1..Len(users) : users[i].name = "Admin"
  /\ \A i \in 1..Len(users) : users[i].name # "bob"

\* C5: a login attempt with a non-empty name and an unseen (non-empty) phone
\* appends exactly one user with that name and phone and an id that no user
\* already in the collection has.
FreshUserCreated ==
  [][\A name \in Names, phone \in Phones, rnd \in RandomSuffix :
       ( /\ signupOrLogin(name, phone, rnd)
         /\ name # "" /\ phone # ""
         /\ \A i \in 1..Len(users) : users[i].phone # phone )
       => ( /\ Len(users') = Len(users) + 1
            /\ IsPrefix(users, users')
            /\ users'[Len(users')].name = name
            /\ users'[Len(users')].phone = phone
            /\ \A i \in 1..Len(users) : users[i].id # users'[Len(users')].id )]_vars

\* C6: the id to which a (name, phone) pair matching a stored user resolves is
\* the same at every login attempt: in two successive states in which the
\* login screen is shown and the pair matches, it resolves to the same id.
Matches(name, phone) ==
  name # "" /\ phone # "" /\ find(users, phone) # 0 /\ users[find(users, phone)].name = name
ResolvedId(phone) == users[find(users, phone)].id
LookupStable ==
  [][\A name \in Names, phone \in Phones :
       (user = Null /\ user' = Null /\ Matches(name, phone) /\ Matches(name, phone)')
       => ResolvedId(phone)' = ResolvedId(phone)]_vars

\* C7 (as stated): every user-triggered change of a collection issues exactly
\* one write for its key, carrying the updated collection, and a write that
\* settles successfully replaces the stored value.
OneWritePerMutation ==
  [][\A k \in Keys : UserMutation(k) =>
        /\ IsPrefix(queue, queue')
        /\ Len(Issued) = 1
        /\ \A i \in 1..Len(Issued) :
              Issued[i].op = "setItem" /\ Issued[i].key = k /\ Issued[i].data = Mem(k)']_vars

\* C7 (amended): every user-triggered change of a collection issues, in the
\* same step and after the in-memory update, one write for its key when it is
\* a property operation and two (the explicit save and the save effect) when
\* it is the creation of a user or a mint; every such write carries the
\* updated collection, also when the operation leaves the collection as it
\* was; the store changes only when the oldest write in flight settles, and
\* then to the snapshot that write carries.
WritesFollowMutations ==
  [][ /\ \A k \in Keys : UserMutation(k) =>
            /\ IsPrefix(queue, queue')
            /\ Len(Issued) = (IF k = STORAGE_KEYS.PROPERTIES THEN 1 ELSE 2)
            /\ \A i \in 1..Len(Issued) :
                  Issued[i].op = "setItem" /\ Issued[i].key = k /\ Issued[i].data = Mem(k)'
            /\ store' = store
      /\ (loadPc' = loadPc /\ IsPrefix(queue, queue') /\ queue' # queue) =>
            \E k \in Keys :
               /\ Len(Issued) = (IF k = STORAGE_KEYS.PROPERTIES THEN 1 ELSE 2)
               /\ \A i \in 1..Len(Issued) :
                     Issued[i].op = "setItem" /\ Issued[i].key = k /\ Issued[i].data = Mem(k)'
      /\ store' # store =>
            /\ Settles
            /\ store' = [store EXCEPT ![Head(queue).key] = JSONstringify(Head(queue).data)]
    ]_vars
\* a user, a property with a comparable and a token exist, the two writes of
\* the mint are in flight and the store holds the property that was written
MintWritesInFlight ==
  /\ users # <<>> /\ tokens # <<>>
  /\ \E i \in 1..Len(properties) : properties[i].comparables # <<>>
  /\ store[STORAGE_KEYS.PROPERTIES] = JSONstringify(properties)
  /\ Len(queue) = 2
  /\ \A i \in 1..2 : queue[i].key = STORAGE_KEYS.TOKENS /\ queue[i].data = tokens
  /\ queue[1].waiter = "acceptAndMint"

\* C8: when the save awaited by signupOrLogin or acceptAndMint settles, with
\* success or with failure, the operation completes: the new user is logged
\* in, the mint is reported.
SaveFailureNonFatal ==
  [][Settles =>
       /\ Head(queue).waiter = "signupOrLogin" => user' = Head(queue).ctx[1]
       /\ Head(queue).waiter = "acceptAndMint" => alert' = "Minted"]_vars

\* C9: every read of the startup load hands over the stored sequence, or the
\* fallback (the empty sequence) when nothing is stored, the text is
\* unparsable or the read fails; the load effect is never ended by an error
\* and goes on to the next key; its last step sets the three collections to
\* what was handed over.
\* a step in which the load effect resumes from a read
Reads == queue # <<>> /\ Head(queue).op = "getItem" /\ loadPc' # loadPc
Degraded(raw) == IF raw.kind = "json" THEN raw.val ELSE <<>>
AssignFrame ==
  [][\A propId \in PropIds :
       assignToUser(propId, firstUserId(users)) =>
         /\ users' = users /\ tokens' = tokens /\ user' = user /\ alert' = alert
         /\ Len(properties') = Len(properties)
         /\ \A i \in 1..Len(properties) :
               /\ properties[i].id # propId => properties'[i] = properties[i]
               /\ properties[i].id = propId =>
                     /\ properties'[i].assignedTo = firstUserId(users)
                     /\ [properties'[i] EXCEPT !.assignedTo = NullId]
                          = [properties[i] EXCEPT !.assignedTo = NullId]]_vars
\* of two properties with different ids, one has been assigned to the first
\* user and the other has not
AssignedOneOfTwo ==
  /\ Len(properties) = 2 /\ Len(users) > 0
  /\ properties[1].id # properties[2].id
  /\ properties[1].assignedTo = users[1].id
  /\ properties[2].assignedTo = NullId

\* C11: addComparable(propId, ...) on an existing property keeps the number and
\* order of the properties, extends the comparables of the properties with
\* that id by exactly the new entry at the end and leaves the other
\* properties as they were; and in every step of a run each property (the
\* collection only grows at its head, so a property is the entry at a given
\* distance from the tail) that has comparables is still there afterwards,
\* with a comparables sequence that its former one is a prefix of.
ComparablesAppendOnly ==
  [][ /\ \A value \in CompValues, rnd \in RandomSuffix :
            (addComparable("PROP-a", value, rnd) /\ \E i \in 1..Len(properties) : properties[i].id = "PROP-a")
            => /\ Len(properties') = Len(properties)
               /\ \A i \in 1..Len(properties) :
                     IF properties[i].id = "PROP-a"
                     THEN properties'[i] =
                            [properties[i] EXCEPT !.comparables =
                               properties[i].comparables \o <<[id |-> "C-" \o rnd, value |-> value]>>]
                     ELSE properties'[i] = properties[i]
      /\ \A j \in 0..(Len(properties) - 1) :
            properties[Len(properties) - j].comparables # <<>> =>
            /\ Len(properties') > j
            /\ properties'[Len(properties') - j].id = properties[Len(properties) - j].id
            /\ IsPrefix(properties[Len(properties) - j].comparables,
                        properties'[Len(properties') - j].comparables)
    ]_vars
\* C12: createProperty with an empty title shows the alert and leaves the
\* properties unchanged; with a non-empty title it puts exactly one new
\* property in front of the existing ones, which keep their order, with the
\* given title and address, an id that no existing property has, empty
\* comparables and documents, and assignedTo null when the assignee field was
\* left empty.
CreateInsertsFresh ==
  [][\A title \in Titles, address \in Addresses, estimatedValue \in ValueTexts,
        assignedTo \in AssignTexts, rnd \in RandomSuffix, now \in Timestamps :
        createProperty(title, address, estimatedValue, assignedTo, rnd, now) =>
          IF title = ""
          THEN properties' = properties /\ alert' = "Enter title"
          ELSE /\ Len(properties') = Len(properties) + 1
               /\ Tail(properties') = properties
               /\ properties'[1].title = title
               /\ properties'[1].address = address
               /\ properties'[1].comparables = <<>>
               /\ properties'[1].documents = <<>>
               /\ assignedTo = "" => properties'[1].assignedTo = NullId
               /\ \A i \in 1..Len(properties) : properties[i].id # properties'[1].id]_vars
\* C13: in every reachable state the assignedTo of every property is null or
\* the id of a user in the users collection.
AssignedToExists ==
  \A i \in 1..Len(properties) :
     \/ properties[i].assignedTo = NullId
     \/ \E j \in 1..Len(users) : users[j].id = properties[i].assignedTo
\* C15: doSearch leaves the properties as they are; for a query that is empty
\* or all spaces the results are the properties, in their order; for any
\* other query the results are the properties, in their order, whose title,
\* address or stringified metadata contains, ignoring case, the query without
\* its leading and trailing spaces (none of them when nothing matches).
Needle(text) ==
  LET inner == {i \in 1..Len(text) : text[i] # " "}
      lo == CHOOSE i \in inner : \A j \in inner : i <= j
      hi == CHOOSE i \in inner : \A j \in inner : j <= i
  IN [i \in 1..(hi - lo + 1) |-> lowerChar(text[lo + i - 1])]
Occurs(needle, text) ==
  \E k \in 1..Len(text) :
     /\ k + Len(needle) - 1 <= Len(text)
     /\ \A j \in 1..Len(needle) : lowerChar(text[k + j - 1]) = needle[j]
Matching(p, needle) ==
  \/ Occurs(needle, Chars(p.title))
  \/ Occurs(needle, Chars(p.address))
  \/ Occurs(needle, stringify(p.metadata))
\* out is props restricted to the positions in keep, in the same order
Restriction(out, props, keep) ==
  /\ Len(out) = Cardinality(keep)
  /\ \E f \in [1..Len(out) -> keep] :
        /\ \A a, b \in 1..Len(out) : a < b => f[a] < f[b]
        /\ \A k \in 1..Len(out) : out[k] = props[f[k]]
SearchContract ==
  [][(query' = query /\ doSearch) =>
        /\ properties' = properties
        /\ IF \A i \in 1..Len(query) : query[i] = " "
           THEN results' = properties
           ELSE Restriction(results', properties,
                            {i \in 1..Len(properties) : Matching(properties[i], Needle(query))})]_vars
\* a search has kept the second of two different properties and dropped the first
SearchFiltered ==
  /\ Len(properties) = 2
  /\ properties[1] # properties[2]
  /\ results = <<properties[2]>>
  /\ query # <<>>
\* the integer nearest to n / d, a tie going up, for integers n >= 0 and d > 0
Nearest(n, d) == (2 * n + d) \div (2 * d)
\* the mean of the comparables' values to the nearest integer, 0 without comparables
MeanOfComparables(prop) ==
  IF prop.comparables = <<>> THEN 0
  ELSE Nearest(SumOfValues(prop.comparables, 1), Len(prop.comparables))

\* C16: the valuation requested for a property whose estimatedValue is 0 uses
\* base 0: it is 0.3 times the mean of the comparables, to the nearest integer.
ZeroEstimateUsesZero ==
  [][\A prop \in Range(results) :
        (prop.estimatedValue = 0 /\ requestValuation(prop)) =>
           /\ res'.base = 0
           /\ res'.valuation = Nearest(3 * MeanOfComparables(prop), 10)]_vars

\* C17: the valuation requested for a property with a positive integer
\* estimatedValue e is 0.7 e + 0.3 c to the nearest integer, where c is the
\* mean of the comparables' values to the nearest integer (0 without
\* comparables); the confidence is medium with at least one comparable and
\* low without; the property and the collections are left as they were.
BlendedValuation ==
  [][\A prop \in Range(results) :
        (prop.estimatedValue > 0 /\ requestValuation(prop)) =>
           /\ res'.compAvg = MeanOfComparables(prop)
           /\ res'.valuation = Nearest(7 * prop.estimatedValue + 3 * MeanOfComparables(prop), 10)
           /\ res'.confidence = IF prop.comparables # <<>> THEN "medium" ELSE "low"
           /\ properties' = properties /\ results' = results]_vars
\* C14: in every state with a logged-in user, createProperty, assignToUser and
\* addComparable can be performed exactly when the user's name is "admin"
\* ignoring case, and doSearch, requestValuation and acceptAndMint exactly
\* when it is not.
AdminOperation ==
  \/ ENABLED createProperty("Villa", "1 Main St", "100000", "", "a", "2024-01-01T00:00:00.000Z")
  \/ ENABLED assignToUser("PROP-a", firstUserId(users))
  \/ ENABLED addComparable("PROP-a", 50000, "a")
AdminOperations ==
  /\ ENABLED createProperty("Villa", "1 Main St", "100000", "", "a", "2024-01-01T00:00:00.000Z")
  /\ ENABLED assignToUser("PROP-a", firstUserId(users))
  /\ ENABLED addComparable("PROP-a", 50000, "a")
UserOperation ==
  \/ ENABLED doSearch
  \/ \E prop \in Range(properties) :
        \/ valuationOffered(prop)
        \/ ENABLED acceptAndMint(prop, "a", "2024-01-01T00:00:00.000Z")
UserOperations ==
  /\ ENABLED doSearch
  /\ \A prop \in Range(results) :
        /\ valuationOffered(prop)
        /\ ENABLED acceptAndMint(prop, "a", "2024-01-01T00:00:00.000Z")
RoleDecidesOperations ==
  user # Null =>
     IF ToLowerCase(user.name) = "admin"
     THEN AdminOperations /\ ~UserOperation
     ELSE UserOperations /\ ~AdminOperation
\* "Admin" is logged in over a property with a comparable, after "bob" minted a token
AdminAfterMint ==
  /\ user # Null /\ user.name = "Admin"
  /\ \E i \in 1..Len(properties) : properties[i].comparables # <<>>
  /\ \E i \in 1..Len(tokens) : tokens[i].owner.name = "bob"
\* C18: every mint returns a token whose id is non-empty and differs from the
\* id of every token minted earlier (in tokens or still being minted), so that
\* tokens never holds two tokens with the same id.
MintIdsDistinct ==
  [][Len(minting') > Len(minting) =>
        LET token == minting'[Len(minting')].token
        IN /\ token.id # ""
           /\ \A i \in 1..Len(tokens) : tokens[i].id # token.id
           /\ \A i \in 1..Len(minting) : minting[i].token.id # token.id]_vars
\* C19: starting the app never loses persisted data: a non-empty sequence
\* stored under a key is not replaced by the initial empty collection before
\* the load effect has read that key.
NotYetRead(k) ==
  \/ loadPc \in {"unmounted", "users"}
  \/ loadPc = "properties" /\ k # STORAGE_KEYS.USERS
  \/ loadPc = "tokens" /\ k = STORAGE_KEYS.TOKENS
StartupKeepsStored ==
  [][\A k \in Keys :
        NotYetRead(k) /\ store[k].kind = "json" /\ store[k].val # <<>>
           => store'[k] # JSONstringify(<<>>)]_vars
\* C20: the durable store mirrors memory: once startup has completed, no
\* request is in flight, no mint is in progress and no write was rejected, the
\* value stored under each of the three keys is the serialised in-memory
\* collection of that key.
Quiescent == loadPc = "done" /\ queue = <<>> /\ minting = <<>>
StoreMirrorsMemory ==
  Quiescent /\ failures = 0 => \A k \in Keys : store[k] = JSONstringify(Mem(k))
\* at rest after a signup, a created property and a mint
MirroredAtRest ==
  /\ Quiescent /\ failures = 0
  /\ users # <<>> /\ properties # <<>> /\ tokens # <<>>
  /\ tokens[1].id = "TOKEN-B"
  /\ \A k \in Keys : store[k] = JSONstringify(Mem(k))
====
